---- MODULE Spec2Model ----
(***************************************************************************)
(* A model of the cpf framebuffer (src/src/lib.rs): the Pixel Buffer, the  *)
(* Mapped-Memory Guard (MMap), Framebuffer::draw and the Painter callback. *)
(*                                                                         *)
(* The GPU driver is modelled by the documented behaviour of the OpenGL    *)
(* calls the code issues:                                                  *)
(*   - glMapBufferRange returns a null pointer and raises                  *)
(*     GL_INVALID_OPERATION when the buffer is already mapped; it may also *)
(*     return null on an unmapped buffer (out of memory);                  *)
(*   - glUnmapBuffer makes the writes done through the mapping visible in  *)
(*     the buffer's data store;                                            *)
(*   - glTextureSubImage2D with a buffer bound to PIXEL_UNPACK_BUFFER      *)
(*     reads width*height RGBA8 pixels from the buffer's data store, row   *)
(*     by row, and stores them normalised in the RGBA32F texture; it is    *)
(*     an error (and transfers nothing) while that buffer is mapped;       *)
(*   - glGetError may report any error code after any call.                *)
(***************************************************************************)
EXTENDS Integers, Sequences, FiniteSets, TLC

\* ------------------------------------------------------------------ bounds

\* The largest number of pixels (width*height) of a modelled Framebuffer.
MaxPixels == 4

\* The largest width and the largest height of a modelled Framebuffer.
MaxSide == 2

\* The most candidate configurations offered to gl_config_picker.
MaxConfigs == 3

\* The largest sample count of a candidate configuration.
MaxSamples == 2

\* The deepest nesting of draw calls explored (a Painter may call draw).
MaxDepth == 3

\* Largest side of a Framebuffer in the size arithmetic, in units of 1024
\* pixels.
MaxSideKi == 41

\* --------------------------------------------------------------- constants

NO_ERROR == 0
INVALID_ENUM == 1280
INVALID_VALUE == 1281
INVALID_OPERATION == 1282
STACK_OVERFLOW == 1283
STACK_UNDERFLOW == 1284
OUT_OF_MEMORY == 1285
INVALID_FRAMEBUFFER_OPERATION == 1286

\* An error code outside the enumerated ones (the `_` arm of check!).
UNKNOWN_CODE == 7

\* std::mem::size_of::<[u8; 4]>()
PixelSize == 4

\* The 2^32 values of the 32-bit size the GPU calls take, in the unit of
\* the size arithmetic (2^20 bytes): a usize cast `as i32` keeps its low 32
\* bits.
I32Span == 4096

\* The error codes the driver is let to report at a probe.
ErrCodes == {NO_ERROR, INVALID_OPERATION, UNKNOWN_CODE}

\* The pixel values a Painter writes: [u8; 4], RGBA.
Black == <<0, 0, 0, 0>>
White == <<255, 255, 255, 255>>
Pixels == {Black, White}

\* The (width, height) pairs of the modelled Framebuffers.
Dims == {d \in (1..MaxSide) \X (1..MaxSide) : d[1] * d[2] <= MaxPixels}

VARIABLES
    width,        \* Framebuffer.width
    height,       \* Framebuffer.height
    pbLength,     \* PixelBuffer.length
    buf,          \* the Pixel Buffer's data store on the GPU, 1..length
    mapped,       \* whether the driver holds the buffer mapped
    view,         \* the mapped client memory (meaningful while mapped)
    tex,          \* the Texture's texels, by <<x, y>>
    boundUnpack,  \* the buffer bound to PIXEL_UNPACK_BUFFER
    stack,        \* the draw calls in progress, innermost last
    last,         \* how the last outermost draw call ended
    diag,         \* the diagnostic line the last step printed
    lastReleased, \* the mapped memory as it was at the last unmap, and
                  \* whether the Painter had written every index of it
    initPc,       \* the position in init_with_ext
    configs,      \* the candidate configurations offered to the picker
    idx,          \* how many candidates the reduction has consumed
    accum,        \* the accumulator of the reduction, then the chosen one
    created,      \* the window, surface, context and GPU objects created
    current,      \* whether the context is current on the surface
    ext,          \* the options init_with_ext was given
    clearColor,   \* the GPU clear color
    program,      \* the compile and link status of the program
    failedAt,     \* the creation that failed, if one did
    allocReq,     \* the size create_pixel_buffer gave to glBufferData
    mapReq,       \* the length MMap::new gave to glMapBufferRange
    sizePc,       \* where the size arithmetic stands
    returned      \* what init_with_ext returned

vars ==
    <<width, height, pbLength, buf, mapped, view, tex, boundUnpack, stack,
      last, diag, lastReleased, initPc, configs, idx, accum, created,
      current, ext, clearColor, program, failedAt, allocReq, mapReq, sizePc,
      returned>>

None == "none"

\* No diagnostic line printed.
NoLine == [err |-> NO_ERROR, tag |-> "", line |-> 0]

\* No guard released yet.
NoRelease == [mem |-> <<>>, full |-> FALSE]

\* ------------------------------------------------------------ check! macro

\* The match of check!: the tag printed for an error code.
DecodeTag(err) ==
    CASE err = INVALID_ENUM -> "GL_INVALID_ENUM"
      [] err = INVALID_VALUE -> "GL_INVALID_VALUE"
      [] err = INVALID_OPERATION -> "GL_INVALID_OPERATION"
      [] err = STACK_OVERFLOW -> "GL_STACK_OVERFLOW"
      [] err = STACK_UNDERFLOW -> "GL_STACK_UNDERFLOW"
      [] err = OUT_OF_MEMORY -> "GL_OUT_OF_MEMORY"
      [] err = INVALID_FRAMEBUFFER_OPERATION ->
            "GL_INVALID_FRAMEBUFFER_OPERATION"
      [] OTHER -> "Unknown Error"

\* What check! prints for the code get_error returned at `line`: nothing for
\* NO_ERROR, else one line with the code, its tag and the call site.
CheckLine(err, line) ==
    IF err # NO_ERROR
    THEN [err |-> err, tag |-> DecodeTag(err), line |-> line]
    ELSE NoLine

\* A probe that panics on an error instead of only printing it.
CheckHaltsOnError(err) == err # NO_ERROR

\* Whether check! stops the caller after the probe: it never does, the macro
\* has no panic, return or break.
CheckHalts(err) == FALSE

\* The codes get_error may return after a call; `invalid`: the call was one
\* the driver must reject.
GetError(invalid) == IF invalid THEN {INVALID_OPERATION} ELSE ErrCodes

\* ------------------------------------------------------------- Pixel Buffer

\* init_with_ext: let size = width * height.
SizeOf(w, h) == w * h

\* The texel coordinates of a w x h texture.
Coords(w, h) == (0..(w - 1)) \X (0..(h - 1))

\* The RGBA / UNSIGNED_BYTE to RGBA32F conversion of the transfer: each
\* channel c becomes the fraction c/255, kept as <<c, 255>>.
Normalize(p) == [i \in 1..4 |-> <<p[i], 255>>]

Texels == {Normalize(p) : p \in Pixels}

\* ------------------------------------------------------ Mapped-Memory Guard

\* A slice as long as the buffer's byte size instead of its pixel count.
AsMutLenBytes == pbLength * PixelSize

\* MMap::as_mut: the slice is from_raw_parts_mut(ptr, self.buffer.length).
AsMutLen == pbLength

\* The byte length MMap::new asks glMapBufferRange for.
MapByteLength == pbLength * PixelSize

\* A mapping requested with MAP_INVALIDATE_BUFFER_BIT: the old contents are
\* gone, the mapped memory starts zeroed.
MapInvalidated == [i \in DOMAIN buf |-> Black]

\* MMap::new maps with MAP_READ_BIT | MAP_WRITE_BIT and no invalidate bit:
\* the mapped memory starts as the buffer's data store.
MapContents == buf

\* A drop that leaves the buffer's data store as it was before the mapping.
UnmapLosesWrites == buf

\* Drop for MMap: unmap_buffer makes the mapped memory the data store.
UnmapStore == view

\* ------------------------------------------------------------------- frames

\* A draw call in progress. pc: the next step; calls: the steps issued so
\* far; guard: this call owns a live MMap; cursor: pixels the Painter has
\* written in this call; sliceLen: length of the slice given to the Painter;
\* errSeen: a probe of this call reported an error; ptr: what its map
\* returned; remapped: it issued its map on an already mapped buffer;
\* cause: why it panicked.
NewFrame ==
    [pc |-> "clear", calls |-> <<>>, guard |-> FALSE, cursor |-> 0,
     sliceLen |-> 0, errSeen |-> FALSE, ptr |-> None, remapped |-> FALSE,
     cause |-> None]

\* No outermost draw call has ended since the last one began.
NoDraw == [NewFrame EXCEPT !.pc = None]

Top == stack[Len(stack)]

SetTop(f) == [stack EXCEPT ![Len(stack)] = f]

Panic(f, cause) == [f EXCEPT !.pc = "unwind", !.cause = cause]

Running(pc) == stack # <<>> /\ Top.pc = pc

\* One GPU call followed by check! at `line`: the call is logged, the probe
\* prints its line, and the draw goes on to `nextpc`.
Probed(f, call, nextpc, line, invalid) ==
    \E err \in GetError(invalid) :
        LET g == [f EXCEPT !.calls = Append(@, call),
                           !.errSeen = @ \/ err # NO_ERROR]
        IN  /\ diag' = CheckLine(err, line)
            /\ stack' = SetTop(IF CheckHalts(err)
                               THEN Panic(g, "gl_error")
                               ELSE [g EXCEPT !.pc = nextpc])

GL == <<buf, mapped, view, tex, boundUnpack, lastReleased>>

\* The sizes given to the GPU calls, followed on their own.
Sizes == <<allocReq, mapReq, sizePc>>

\* What construction fixes: draw reads it through &self and never writes it.
Setup ==
    <<initPc, configs, idx, accum, created, current, ext, clearColor,
      program, failedAt, returned, Sizes>>

Geometry == <<width, height, pbLength, Setup>>

\* --------------------------------------------------------- Framebuffer::draw

\* The application calls draw on an idle Framebuffer.
DrawBegin ==
    /\ stack = <<>>
    /\ stack' = <<NewFrame>>
    /\ last' = NoDraw
    /\ diag' = NoLine
    /\ UNCHANGED <<GL, Geometry>>

\* gl.clear(COLOR_BUFFER_BIT); check!
DrawClear ==
    /\ Running("clear")
    /\ Probed(Top, "clear", "acquire_bind", 374, FALSE)
    /\ UNCHANGED <<GL, Geometry, last>>

\* MMap::new: gl.bind_buffer(PIXEL_UNPACK_BUFFER, pbo); check!
GuardBind ==
    /\ Running("acquire_bind")
    /\ boundUnpack' = "pbo"
    /\ Probed(Top, "bind_pbo", "acquire_map", 70, FALSE)
    /\ UNCHANGED <<buf, mapped, view, tex, lastReleased, Geometry, last>>

\* A guard that is built whatever pointer the driver returned.
GuardNullCheckMissing(ptr) == FALSE

\* MMap::new: if mapped_memory.is_null() { panic!(...) }
GuardNullCheck(ptr) == ptr = "null"

\* MMap::new: gl.map_buffer_range(PIXEL_UNPACK_BUFFER, 0, bytes, R|W);
\* check!; the null check; the guard. The driver returns null on a mapped
\* buffer, and may return null on an unmapped one.
GuardMap ==
    /\ Running("acquire_map")
    /\ \E ptr \in (IF mapped THEN {"null"} ELSE {"null", "mem"}) :
         \E err \in GetError(mapped) :
           LET g == [Top EXCEPT !.calls = Append(@, "map"),
                                !.errSeen = @ \/ err # NO_ERROR,
                                !.ptr = ptr,
                                !.remapped = mapped]
           IN  /\ diag' = CheckLine(err, 79)
               /\ IF CheckHalts(err)
                  THEN /\ stack' = SetTop(Panic(g, "gl_error"))
                       /\ UNCHANGED <<mapped, view>>
                  ELSE IF GuardNullCheck(ptr)
                  THEN /\ stack' = SetTop(Panic(g, "null_map"))
                       /\ UNCHANGED <<mapped, view>>
                  ELSE /\ stack' = SetTop([g EXCEPT !.pc = "call_paint",
                                                    !.guard = TRUE])
                       /\ mapped' = (mapped \/ ptr = "mem")
                       /\ view' = IF ptr = "mem" THEN MapContents ELSE view
    /\ UNCHANGED <<buf, tex, boundUnpack, lastReleased, Geometry, last>>

\* painter.paint(guard.as_mut()): the Painter is handed the slice.
PaintCall ==
    /\ Running("call_paint")
    /\ stack' = SetTop([Top EXCEPT !.pc = "paint", !.cursor = 0,
                                   !.sliceLen = AsMutLen,
                                   !.calls = Append(@, "paint")])
    /\ diag' = NoLine
    /\ UNCHANGED <<GL, Geometry, last>>

\* ------------------------------------------------------------------ Painter

\* The Painter writes the next pixel of the slice (for pixel in pixels).
\* A write outside the mapped memory is lost.
PainterWrite ==
    /\ Running("paint")
    /\ Top.cursor < Top.sliceLen
    /\ \E v \in Pixels :
         view' = IF mapped /\ (Top.cursor + 1) \in DOMAIN view
                 THEN [view EXCEPT ![Top.cursor + 1] = v]
                 ELSE view
    /\ stack' = SetTop([Top EXCEPT !.cursor = @ + 1])
    /\ diag' = NoLine
    /\ UNCHANGED <<buf, mapped, tex, boundUnpack, lastReleased, Geometry, last>>

\* paint returns: the scope of the guard ends.
PainterReturn ==
    /\ Running("paint")
    /\ stack' = SetTop([Top EXCEPT !.pc = "release"])
    /\ diag' = NoLine
    /\ UNCHANGED <<GL, Geometry, last>>

\* A draw that catches the panic of paint and goes on with the frame.
PainterPanicSwallowed ==
    /\ Running("paint")
    /\ stack' = SetTop([Top EXCEPT !.pc = "release", !.cause = "painter"])
    /\ diag' = NoLine
    /\ UNCHANGED <<GL, Geometry, last>>

\* paint panics in the middle of the fill.
PainterPanic ==
    /\ Running("paint")
    /\ stack' = SetTop(Panic(Top, "painter"))
    /\ diag' = NoLine
    /\ UNCHANGED <<GL, Geometry, last>>

\* paint calls draw on the Framebuffer it holds a shared reference to.
PainterCallsDraw ==
    /\ Running("paint")
    /\ Len(stack) < MaxDepth
    /\ stack' = Append(stack, NewFrame)
    /\ diag' = NoLine
    /\ UNCHANGED <<GL, Geometry, last>>

\* ------------------------------------------------------------- Drop for MMap

\* Drop for MMap: bind_buffer(pbo); unmap_buffer; check!. Unmapping a
\* buffer that is not mapped is an error the driver reports.
DropGuard(f, nextpc) ==
    /\ boundUnpack' = "pbo"
    /\ buf' = IF mapped THEN UnmapStore ELSE buf
    /\ lastReleased' = IF mapped
                       THEN [mem |-> view, full |-> f.cursor = f.sliceLen]
                       ELSE lastReleased
    /\ mapped' = FALSE
    /\ view' = view
    /\ Probed([f EXCEPT !.guard = FALSE,
                        !.calls = Append(@, "bind_pbo")],
              "unmap", nextpc, 101, ~mapped)
    /\ UNCHANGED <<tex, Geometry, last>>

\* A guard whose scope is the whole of draw: nothing is released after
\* paint, the transfer comes next.
GuardReleaseDeferred ==
    /\ Running("release")
    /\ stack' = SetTop([Top EXCEPT !.pc = "bind_texture"])
    /\ diag' = NoLine
    /\ UNCHANGED <<GL, Geometry, last>>

\* The guard leaves its scope after paint returned.
GuardRelease ==
    /\ Running("release")
    /\ DropGuard(Top, "bind_texture")

\* A guard released by a call after paint instead of by Drop: a panic
\* skips the release.
UnwindDropLeaks ==
    /\ Running("unwind")
    /\ Top.guard
    /\ stack' = SetTop([Top EXCEPT !.guard = FALSE])
    /\ diag' = NoLine
    /\ UNCHANGED <<GL, Geometry, last>>

\* The guard is dropped while a panic unwinds through its scope.
UnwindDrop ==
    /\ Running("unwind")
    /\ Top.guard
    /\ DropGuard(Top, "unwind")

\* A panicking draw call is left: the panic ends the outermost draw, or
\* goes on in the paint that called the draw, as a panic of that paint.
UnwindExit ==
    /\ Running("unwind")
    /\ ~Top.guard
    /\ IF Len(stack) = 1
       THEN /\ stack' = <<>>
            /\ last' = [Top EXCEPT !.pc = "panicked"]
       ELSE /\ stack' = [SubSeq(stack, 1, Len(stack) - 1)
                            EXCEPT ![Len(stack) - 1] =
                                Panic(stack[Len(stack) - 1], "painter")]
            /\ last' = last
    /\ diag' = NoLine
    /\ UNCHANGED <<GL, Geometry>>

\* ------------------------------------------------------ transfer, quad, swap

\* gl.bind_texture(TEXTURE_2D, texture); check!
DrawBindTexture ==
    /\ Running("bind_texture")
    /\ Probed(Top, "bind_texture", "bind_buffer", 386, FALSE)
    /\ UNCHANGED <<GL, Geometry, last>>

\* gl.bind_buffer(PIXEL_UNPACK_BUFFER, pbo); check!
DrawBindBuffer ==
    /\ Running("bind_buffer")
    /\ boundUnpack' = "pbo"
    /\ Probed(Top, "bind_pbo", "sub_image", 391, FALSE)
    /\ UNCHANGED <<buf, mapped, view, tex, lastReleased, Geometry, last>>

\* A transfer that reads the buffer column by column.
TransferSourceTransposed(x, y) == buf[((x * height + y) % pbLength) + 1]

\* The pixel the transfer reads for texel (x, y): rows of `width` pixels
\* from BufferOffset(0).
TransferSource(x, y) == buf[y * width + x + 1]

\* The texture after texture_sub_image_2d(texture, 0, 0, 0, width, height,
\* RGBA, UNSIGNED_BYTE, BufferOffset(0)).
Transferred ==
    [c \in Coords(width, height) |-> Normalize(TransferSource(c[1], c[2]))]

\* gl.texture_sub_image_2d(...); check!. Nothing is transferred, and the
\* driver reports an error, while the source buffer is mapped.
DrawSubImage ==
    /\ Running("sub_image")
    /\ tex' = IF boundUnpack = "pbo" /\ ~mapped THEN Transferred ELSE tex
    /\ Probed(Top, "sub_image", "use_program", 405, mapped)
    /\ UNCHANGED <<buf, mapped, view, boundUnpack, lastReleased, Geometry, last>>

\* gl.use_program(program); check!
DrawUseProgram ==
    /\ Running("use_program")
    /\ Probed(Top, "use_program", "bind_vao", 408, FALSE)
    /\ UNCHANGED <<GL, Geometry, last>>

\* gl.bind_vertex_array(vao); check!
DrawBindVao ==
    /\ Running("bind_vao")
    /\ Probed(Top, "bind_vao", "draw_arrays", 410, FALSE)
    /\ UNCHANGED <<GL, Geometry, last>>

\* gl.draw_arrays(TRIANGLE_STRIP, 0, 4); check!
DrawArrays ==
    /\ Running("draw_arrays")
    /\ Probed(Top, "draw_arrays", "swap", 412, FALSE)
    /\ UNCHANGED <<GL, Geometry, last>>

\* A swap whose result is dropped instead of expected.
SwapResultIgnored(ok) == FALSE

\* self.surface.swap_buffers(&ctx).expect("can swap buffers")
SwapPanics(ok) == ~ok

\* swap_buffers, and the return of draw to its caller.
DrawSwap ==
    /\ Running("swap")
    /\ \E ok \in BOOLEAN :
         LET g == [Top EXCEPT !.calls = Append(@, IF ok THEN "swap"
                                                  ELSE "swap_failed")]
         IN  IF SwapPanics(ok)
             THEN /\ stack' = SetTop(Panic(g, "swap"))
                  /\ last' = last
             ELSE /\ stack' = SubSeq(stack, 1, Len(stack) - 1)
                  /\ last' = IF Len(stack) = 1
                             THEN [g EXCEPT !.pc = "returned"]
                             ELSE last
    /\ diag' = NoLine
    /\ UNCHANGED <<GL, Geometry>>

\* --------------------------------------------------------- gl_config_picker

\* supports_transparency() is an Option<bool>: Some(true), Some(false), None.
Transparency == {"yes", "no", "unknown"}

\* A candidate configuration, by what the picker reads of it.
Configs == [transparency : Transparency, samples : 0..MaxSamples]

ConfigLists == UNION {[1..n -> Configs] : n \in 0..MaxConfigs}

NoConfig == [transparency |-> "unknown", samples |-> 0]

\* config.supports_transparency().unwrap_or(false)
SupportsTransparency(c) == c.transparency = "yes"

\* A picker that looks at the sample count only between candidates of the
\* same transparency.
PickerPrefersTransparencyFirst(a, c) ==
    \/ SupportsTransparency(c) /\ ~SupportsTransparency(a)
    \/ /\ SupportsTransparency(c) = SupportsTransparency(a)
       /\ c.samples < a.samples

\* The condition of the closure: transparency_check || fewer samples.
PickerPrefers(a, c) ==
    \/ SupportsTransparency(c) /\ ~SupportsTransparency(a)
    \/ c.samples < a.samples

\* The closure given to reduce.
ReduceStep(a, c) == IF PickerPrefers(a, c) THEN c ELSE a

RECURSIVE ReduceFrom(_, _, _)
ReduceFrom(a, cs, i) ==
    IF i > Len(cs) THEN a ELSE ReduceFrom(ReduceStep(a, cs[i]), cs, i + 1)

\* gl_config_picker on a non-empty candidate list: configs.reduce(..).
gl_config_picker(cs) == ReduceFrom(cs[1], cs, 2)

\* ------------------------------------------------- Framebuffer::init_with_ext

AllResources ==
    {"window", "surface", "context", "gl", "program", "vao", "pixel_buffer",
     "texture"}

\* The fields of Framebuffer that hold a created object.
FramebufferFields == AllResources \ {"window"}

Zero == <<0, 0, 0, 0>>

\* The clear color of examples/basic.rs, [0.3, 0.4, 0.7, 1.0], in tenths.
ExampleColor == <<3, 4, 7, 10>>

NoExt == [given |-> FALSE, has_color |-> FALSE, color |-> Zero]

\* Option<FramebufferConfigExt>: None, Some with clear_color None, Some
\* with a clear_color.
ExtOptions ==
    {NoExt,
     [given |-> TRUE, has_color |-> FALSE, color |-> Zero],
     [given |-> TRUE, has_color |-> TRUE, color |-> ExampleColor]}

\* An initialization that leaves the clear color at its default.
ClearColorIgnored(e) == Zero

\* ext.map(|ext| ext.clear_color.unwrap_or_default()).unwrap_or_default()
ClearColorOf(e) ==
    IF e.given THEN (IF e.has_color THEN e.color ELSE Zero) ELSE Zero

Nothing == [window |-> FALSE, fb |-> {}]

NoProgram == [vs |-> FALSE, fs |-> FALSE, link |-> FALSE, log |-> <<>>]

\* What compile_shader prints for a compile status.
CompileLog(status) ==
    IF status THEN <<>> ELSE <<"ERROR::SHADER::COMPILATION_FAILED">>

\* What create_shader_program prints for a link status.
LinkLog(status) ==
    IF status THEN <<>> ELSE <<"ERROR::PROGRAM::LINKING_FAILED">>

\* A builder that panics on a failed compile or link status.
StatusChecked(status) == ~status

\* Whether compile_shader / create_shader_program stop on a failed status:
\* they print and return the object.
StatusPanics(status) == FALSE

\* A creation whose failure is swallowed (unwrap_or_default): init goes on.
UnwrapTolerates(ok) == FALSE

\* unwrap() / expect() on the result of a creation: a failure panics.
UnwrapPanics(ok) == ~ok

DrawState == <<stack, last, lastReleased, mapped, Sizes>>

\* A creation followed by unwrap or expect: the object is there and init
\* goes on to `to`, or init panics.
Unwrapped(ok, res, to) ==
    /\ created' = IF ok THEN created \cup {res} ELSE created
    /\ failedAt' = IF ok THEN failedAt ELSE res
    /\ initPc' = IF UnwrapPanics(ok) THEN "panicked" ELSE to

\* The check! that ends a step of init: it prints, and init goes on.
InitProbe(line) ==
    \E err \in ErrCodes :
        /\ diag' = CheckLine(err, line)
        /\ ~CheckHalts(err)

\* reduce takes the first candidate as the accumulator; on an empty
\* iterator it returns None and the unwrap panics.
PickFirst ==
    /\ initPc = "pick"
    /\ idx = 0
    /\ IF configs = <<>>
       THEN /\ failedAt' = "config"
            /\ initPc' = IF UnwrapPanics(FALSE) THEN "panicked" ELSE "window"
            /\ UNCHANGED <<accum, idx>>
       ELSE /\ accum' = configs[1]
            /\ idx' = 1
            /\ UNCHANGED <<failedAt, initPc>>
    /\ UNCHANGED <<width, height, pbLength, buf, view, tex, boundUnpack, diag,
                   DrawState, configs, created, current, ext, clearColor,
                   program, returned>>

\* reduce applies the closure to the accumulator and the next candidate.
PickStep ==
    /\ initPc = "pick"
    /\ 1 <= idx
    /\ idx < Len(configs)
    /\ accum' = ReduceStep(accum, configs[idx + 1])
    /\ idx' = idx + 1
    /\ UNCHANGED <<width, height, pbLength, buf, view, tex, boundUnpack, diag,
                   DrawState, configs, created, current, ext, clearColor,
                   program, failedAt, initPc, returned>>

\* The picker has returned; display_builder.build(..).unwrap() and
\* window.expect(..): the window, sized width x height.
InitWindow ==
    /\ initPc = "pick"
    /\ 1 <= idx
    /\ idx = Len(configs)
    /\ \E d \in Dims, ok \in BOOLEAN :
         /\ width' = d[1]
         /\ height' = d[2]
         /\ Unwrapped(ok, "window", "surface")
    /\ configs' = <<>>
    /\ idx' = 0
    /\ UNCHANGED <<pbLength, buf, view, tex, boundUnpack, diag, DrawState,
                   accum, current, ext, clearColor, program, returned>>

\* build_surface_attributes(..).expect(..); create_window_surface(..).unwrap()
InitSurface ==
    /\ initPc = "surface"
    /\ \E ok \in BOOLEAN : Unwrapped(ok, "surface", "context")
    /\ UNCHANGED <<width, height, pbLength, buf, view, tex, boundUnpack, diag,
                   DrawState, configs, idx, accum, current, ext, clearColor,
                   program, returned>>

\* A context that is created and never made current.
InitContextNotCurrent ==
    /\ initPc = "context"
    /\ \E ok \in BOOLEAN : Unwrapped(ok, "context", "load_gl")
    /\ UNCHANGED <<width, height, pbLength, buf, view, tex, boundUnpack, diag,
                   DrawState, configs, idx, accum, current, ext, clearColor,
                   program, returned>>

\* window_handle().expect(..); create_context(..).expect(..);
\* make_current(&surface).expect(..)
InitContext ==
    /\ initPc = "context"
    /\ \E ok \in BOOLEAN :
         /\ Unwrapped(ok, "context", "load_gl")
         /\ current' = ok
    /\ UNCHANGED <<width, height, pbLength, buf, view, tex, boundUnpack, diag,
                   DrawState, configs, idx, accum, ext, clearColor, program,
                   returned>>

\* glow::Context::from_loader_function_cstr(..)
InitLoadGl ==
    /\ initPc = "load_gl"
    /\ Unwrapped(TRUE, "gl", "program")
    /\ UNCHANGED <<width, height, pbLength, buf, view, tex, boundUnpack, diag,
                   DrawState, configs, idx, accum, current, ext, clearColor,
                   program, returned>>

\* compile_shader twice and create_shader_program: create_shader(..).unwrap()
\* and create_program().unwrap() panic on failure; a failed compile or link
\* is printed and the object is returned all the same.
InitProgram ==
    /\ initPc = "program"
    /\ \E ok \in BOOLEAN, vs \in BOOLEAN, fs \in BOOLEAN, link \in BOOLEAN :
         /\ link => (vs /\ fs)
         /\ created' = IF ok THEN created \cup {"program"} ELSE created
         /\ failedAt' = IF ok THEN failedAt ELSE "program"
         /\ initPc' = IF \/ UnwrapPanics(ok)
                         \/ ok /\ (\/ StatusPanics(vs)
                                   \/ StatusPanics(fs)
                                   \/ StatusPanics(link))
                      THEN "panicked"
                      ELSE "vao"
         /\ program' = IF ok
                       THEN [vs |-> vs, fs |-> fs, link |-> link,
                             log |-> CompileLog(vs) \o CompileLog(fs)
                                         \o LinkLog(link)]
                       ELSE program
    /\ UNCHANGED <<width, height, pbLength, buf, view, tex, boundUnpack, diag,
                   DrawState, configs, idx, accum, current, ext, clearColor,
                   returned>>

\* gl.create_vertex_array().unwrap(); check!; bind_vertex_array; check!
InitVao ==
    /\ initPc = "vao"
    /\ \E ok \in BOOLEAN : Unwrapped(ok, "vao", "pixel_buffer")
    /\ InitProbe(226)
    /\ UNCHANGED <<width, height, pbLength, buf, view, tex, boundUnpack,
                   DrawState, configs, idx, accum, current, ext, clearColor,
                   program, returned>>

\* create_pixel_buffer(&gl, size): create_buffer().unwrap(); bind_buffer;
\* buffer_data_size(size * 4, STREAM_DRAW); the store's contents are
\* unspecified.
InitPixelBuffer ==
    /\ initPc = "pixel_buffer"
    /\ \E ok \in BOOLEAN :
         /\ Unwrapped(ok, "pixel_buffer", "texture")
         /\ IF ok
            THEN /\ pbLength' = SizeOf(width, height)
                 /\ buf' \in [1..SizeOf(width, height) -> Pixels]
                 /\ view' = buf'
                 /\ boundUnpack' = "pbo"
            ELSE UNCHANGED <<pbLength, buf, view, boundUnpack>>
    /\ InitProbe(229)
    /\ UNCHANGED <<width, height, tex, DrawState, configs, idx, accum, current,
                   ext, clearColor, program, returned>>

\* create_texture(&gl, width, height): create_texture().unwrap();
\* texture_storage_2d(texture, 1, RGBA32F, width, height); the filters.
InitTexture ==
    /\ initPc = "texture"
    /\ \E ok \in BOOLEAN :
         /\ Unwrapped(ok, "texture", "clear_color")
         /\ IF ok
            THEN tex' \in [Coords(width, height) -> Texels]
            ELSE tex' = tex
    /\ InitProbe(231)
    /\ UNCHANGED <<width, height, pbLength, buf, view, boundUnpack, DrawState,
                   configs, idx, accum, current, ext, clearColor, program,
                   returned>>

\* gl.clear_color(r, g, b, a) from the options; check!
InitClearColor ==
    /\ initPc = "clear_color"
    /\ \E e \in ExtOptions :
         /\ ext' = e
         /\ clearColor' = ClearColorOf(e)
    /\ initPc' = "return"
    /\ InitProbe(240)
    /\ UNCHANGED <<width, height, pbLength, buf, view, tex, boundUnpack,
                   DrawState, configs, idx, accum, created, current, program,
                   failedAt, returned>>

\* (window, Self { surface, ctx_handle, width, height, gl, pixel_buffer,
\* texture, vao, program })
InitReturn ==
    /\ initPc = "return"
    /\ returned' = [window |-> "window" \in created,
                    fb |-> created \cap FramebufferFields]
    /\ initPc' = "ready"
    /\ diag' = NoLine
    /\ UNCHANGED <<width, height, pbLength, buf, view, tex, boundUnpack,
                   DrawState, configs, idx, accum, created, current, ext,
                   clearColor, program, failedAt>>

\* init_with_ext is called: nothing exists yet, the window system offers
\* its candidate configurations.
InitStart ==
    /\ initPc = "pick"
    /\ configs \in ConfigLists
    /\ idx = 0
    /\ accum = NoConfig
    /\ created = {}
    /\ current = FALSE
    /\ ext = NoExt
    /\ clearColor = Zero
    /\ program = NoProgram
    /\ failedAt = None
    /\ returned = Nothing
    /\ width = 0
    /\ height = 0
    /\ pbLength = 0
    /\ buf = <<>>
    /\ view = <<>>
    /\ tex = <<>>
    /\ mapped = FALSE
    /\ boundUnpack = None
    /\ stack = <<>>
    /\ last = NoDraw
    /\ diag = NoLine
    /\ lastReleased = NoRelease
    /\ allocReq = 0
    /\ mapReq = 0
    /\ sizePc = "off"

NextInit ==
    \/ PickFirst
    \/ PickStep
    \/ InitWindow
    \/ InitSurface
    \/ InitContext
    \/ InitLoadGl
    \/ InitProgram
    \/ InitVao
    \/ InitPixelBuffer
    \/ InitTexture
    \/ InitClearColor
    \/ InitReturn

SpecInit == InitStart /\ [][NextInit]_vars

\* ------------------------------------------------------------ specification

\* A Framebuffer as init_with_ext returns it: the Pixel Buffer allocated
\* for width*height pixels and bound, its store and the texture's storage
\* with unspecified contents, nothing mapped.
Init ==
    /\ \E d \in Dims :
         /\ width = d[1]
         /\ height = d[2]
         /\ pbLength = SizeOf(d[1], d[2])
         /\ buf \in [1..SizeOf(d[1], d[2]) -> Pixels]
         /\ tex \in [Coords(d[1], d[2]) -> Texels]
    /\ view = buf
    /\ mapped = FALSE
    /\ boundUnpack = "pbo"
    /\ stack = <<>>
    /\ last = NoDraw
    /\ diag = NoLine
    /\ lastReleased = NoRelease
    /\ initPc = "ready"
    /\ configs = <<>>
    /\ idx = 0
    /\ accum = [transparency |-> "yes", samples |-> 0]
    /\ created = AllResources
    /\ current = TRUE
    /\ ext = NoExt
    /\ clearColor = ClearColorOf(NoExt)
    /\ program = [vs |-> TRUE, fs |-> TRUE, link |-> TRUE, log |-> <<>>]
    /\ failedAt = None
    /\ returned = [window |-> TRUE, fb |-> FramebufferFields]
    /\ allocReq = 0
    /\ mapReq = 0
    /\ sizePc = "off"

Next ==
    \/ DrawBegin
    \/ DrawClear
    \/ GuardBind
    \/ GuardMap
    \/ PaintCall
    \/ PainterWrite
    \/ PainterReturn
    \/ PainterPanic
    \/ PainterCallsDraw
    \/ GuardRelease
    \/ UnwindDrop
    \/ UnwindExit
    \/ DrawBindTexture
    \/ DrawBindBuffer
    \/ DrawSubImage
    \/ DrawUseProgram
    \/ DrawBindVao
    \/ DrawArrays
    \/ DrawSwap

Spec == Init /\ [][Next]_vars

\* ------------------------------------------------------ the size arithmetic

\* The sizes of one Framebuffer from its creation to its first mapping, in
\* the machine integers of the code. The sides are counted in units of 1024
\* pixels, so that SizeOf is in units of 2^20 pixels and a byte size in
\* units of 2^20 bytes; the usize products are exact (they stay far below
\* 2^64), and the cast to i32 is exact on these multiples of 2^20.

\* `n as i32` on a usize: the low 32 bits, read as a signed number.
NarrowI32(n) ==
    LET low == n % I32Span
    IN  IF 2 * low >= I32Span THEN low - I32Span ELSE low

\* The size of the data store glBufferData leaves: a negative size is
\* GL_INVALID_VALUE and no store is made.
StoreSize == IF allocReq > 0 THEN allocReq ELSE 0

\* What the size arithmetic leaves alone.
Rendering ==
    <<buf, mapped, view, tex, boundUnpack, stack, last, diag, lastReleased,
      initPc, configs, idx, accum, created, current, ext, clearColor,
      program, failedAt, returned>>

\* create_pixel_buffer(gl, size), size = width * height:
\* buffer_data_size(.., (length * size_of::<Format>()) as _, ..) and
\* PixelBuffer { length, .. }.
SizeCreatePixelBuffer ==
    /\ sizePc = "create"
    /\ pbLength' = SizeOf(width, height)
    /\ allocReq' = NarrowI32(SizeOf(width, height) * PixelSize)
    /\ sizePc' = "map"
    /\ UNCHANGED <<width, height, mapReq, Rendering>>

\* MMap::new: map_buffer_range(.., 0, (buffer.length * size_of) as _, ..).
\* The driver maps a range of positive length that lies in the store, or
\* answers null; a null pointer panics.
SizeMap ==
    /\ sizePc = "map"
    /\ mapReq' = NarrowI32(MapByteLength)
    /\ \E ok \in BOOLEAN :
         sizePc' = IF ok /\ mapReq' > 0 /\ mapReq' <= StoreSize
                   THEN "as_mut"
                   ELSE "panicked"
    /\ UNCHANGED <<width, height, pbLength, allocReq, Rendering>>

\* MMap::as_mut: from_raw_parts_mut(mapped_memory, self.buffer.length).
SizeAsMut ==
    /\ sizePc = "as_mut"
    /\ sizePc' = "exposed"
    /\ UNCHANGED <<width, height, pbLength, allocReq, mapReq, Rendering>>

\* init is called with a width and a height.
InitSize ==
    /\ width \in 1..MaxSideKi
    /\ height \in 1..MaxSideKi
    /\ pbLength = 0
    /\ allocReq = 0
    /\ mapReq = 0
    /\ sizePc = "create"
    /\ buf = <<>>
    /\ view = <<>>
    /\ tex = <<>>
    /\ mapped = FALSE
    /\ boundUnpack = None
    /\ stack = <<>>
    /\ last = NoDraw
    /\ diag = NoLine
    /\ lastReleased = NoRelease
    /\ initPc = "pixel_buffer"
    /\ configs = <<>>
    /\ idx = 0
    /\ accum = NoConfig
    /\ created = AllResources \ {"pixel_buffer", "texture"}
    /\ current = TRUE
    /\ ext = NoExt
    /\ clearColor = Zero
    /\ program = NoProgram
    /\ failedAt = None
    /\ returned = Nothing

NextSize ==
    \/ SizeCreatePixelBuffer
    \/ SizeMap
    \/ SizeAsMut

SpecSize == InitSize /\ [][NextSize]_vars

\* ------------------------------------------------------------------ helpers

\* The draw calls the state knows of: those in progress and the last ended.
Frames ==
    {stack[i] : i \in 1..Len(stack)} \cup {last}

IsPrefix(s, t) == Len(s) <= Len(t) /\ s = SubSeq(t, 1, Len(s))

EndsWith(s, t) ==
    Len(t) <= Len(s) /\ SubSeq(s, Len(s) - Len(t) + 1, Len(s)) = t

\* The seven steps of draw, as the calls each issues.
SevenSteps ==
    <<"clear",
      "bind_pbo", "map",
      "paint",
      "bind_pbo", "unmap",
      "bind_texture", "bind_pbo", "sub_image",
      "use_program", "bind_vao", "draw_arrays",
      "swap">>

LiveGuards == Cardinality({i \in 1..Len(stack) : stack[i].guard})

\* ------------------------------------------------------------------- claims

\* C1: every draw call that completes has issued clear, bind+map, paint,
\* bind+unmap, bind texture+bind buffer+sub-image, use program+bind vertex
\* array+draw arrays, swap, in this order, each once.
C1_DrawOrder ==
    \A f \in Frames : f.pc = "returned" => f.calls = SevenSteps

C1_Witness ==
    /\ last # NoDraw
    /\ last.pc = "returned"
    /\ last.cursor = pbLength

\* C2: at most one guard is live at any time, and no map is issued on a
\* buffer that is already mapped.
C2_SingleGuardNoRemap ==
    /\ LiveGuards <= 1
    /\ \A f \in Frames : ~f.remapped

\* C3: when a draw call ends by a panic that came out of paint, the guard
\* has been released on the way: the last calls are bind and unmap, the
\* buffer is bound and not mapped; and the buffer is never left mapped
\* between draw calls, so the next draw can map it.
C3_PanicReleasesGuard ==
    /\ stack = <<>> => ~mapped
    /\ \A f \in Frames :
         (f.pc = "panicked" /\ f.cause = "painter") =>
             /\ ~f.guard
             /\ ~mapped
             /\ boundUnpack = "pbo"
             /\ EndsWith(f.calls, <<"paint", "bind_pbo", "unmap">>)

C3_Witness ==
    /\ last # NoDraw
    /\ last.pc = "panicked"
    /\ last.cause = "painter"
    /\ 0 < last.cursor
    /\ last.cursor < last.sliceLen
    /\ lastReleased # NoRelease
    /\ ~mapped

\* C4: the Pixel Buffer's length stays width*height, its store has that
\* many pixels, and every slice handed to a Painter has width*height
\* elements.
C4_LengthIsWidthTimesHeight ==
    /\ pbLength = width * height
    /\ DOMAIN buf = 1..(width * height)
    /\ \A f \in Frames :
         "paint" \in {f.calls[i] : i \in 1..Len(f.calls)} =>
             f.sliceLen = width * height

C4_Witness ==
    /\ Running("paint")
    /\ lastReleased # NoRelease
    /\ width = 2
    /\ height = 2
    /\ Top.sliceLen = 4

\* C5: a guard just acquired exposes the values the mapped memory held when
\* the guard before it was released (no GPU-side write happens in between).
C5_RoundTrip ==
    (Running("call_paint") /\ lastReleased # NoRelease) =>
        view = lastReleased.mem

C5_Witness ==
    /\ Running("call_paint")
    /\ lastReleased # NoRelease
    /\ lastReleased.full
    /\ pbLength = 4
    /\ view = lastReleased.mem
    /\ view[1] # view[2]

\* C7: after a draw call completes, texel (x, y) of the texture is pixel
\* y*width + x of what the Painter left in the mapped memory in that draw,
\* each channel c stored as c/255; a Painter that wrote white everywhere
\* leaves the texture white.
C7_TextureHoldsPaintedPixels ==
    \A f \in Frames :
        f.pc = "returned" =>
            /\ DOMAIN tex = (0..(width - 1)) \X (0..(height - 1))
            /\ \A x \in 0..(width - 1), y \in 0..(height - 1), ch \in 1..4 :
                 tex[<<x, y>>][ch] =
                     <<lastReleased.mem[y * width + x + 1][ch], 255>>
            /\ lastReleased.mem = buf

C7_Witness ==
    /\ last # NoDraw
    /\ last.pc = "returned"
    /\ last.cursor = 4
    /\ width = 2
    /\ height = 2
    /\ \A i \in 1..4 : lastReleased.mem[i] = White
    /\ \A c \in DOMAIN tex : \A ch \in 1..4 : tex[c][ch] = <<255, 255>>

\* C8: a draw call whose map returned null panics with no guard built: it
\* has issued only clear, the bind and the map; no paint, no transfer, no
\* quad, no swap.
C8_NullMapIsFatal ==
    \A f \in Frames :
        f.ptr = "null" =>
            /\ f.pc \in {"unwind", "panicked"}
            /\ f.cause = "null_map"
            /\ ~f.guard
            /\ f.calls = <<"clear", "bind_pbo", "map">>

C8_Witness ==
    /\ last # NoDraw
    /\ last.ptr = "null"
    /\ last.pc = "panicked"
    /\ ~last.remapped

\* C9: no draw call ever panics because of an error code: a panic comes from
\* the Painter, a null mapping or a failed swap only; a draw in which probes
\* reported errors still completes with all its steps; and what a probe
\* prints is the code, its tag and its call site.
C9_ProbeNeverHalts ==
    /\ \A f \in Frames :
         /\ f.cause \in {None, "painter", "null_map", "swap"}
         /\ (f.pc = "returned" /\ f.errSeen) => f.calls = SevenSteps
    /\ diag # NoLine =>
         /\ diag.err # NO_ERROR
         /\ diag.err = INVALID_OPERATION => diag.tag = "GL_INVALID_OPERATION"
         /\ diag.err = UNKNOWN_CODE => diag.tag = "Unknown Error"
         /\ diag.line \in {374, 70, 79, 101, 386, 391, 405, 408, 410, 412}

C9_Witness ==
    /\ last # NoDraw
    /\ last.pc = "returned"
    /\ last.errSeen
    /\ diag = NoLine

\* C6: when the reduction has consumed every candidate, the chosen
\* configuration supports transparency if a candidate does, and has the
\* least sample count among the candidates of that transparency.
C6_PicksTransparentMinSamples ==
    (initPc = "pick" /\ 1 <= idx /\ idx = Len(configs)) =>
        LET wanted == \E i \in 1..Len(configs) :
                          configs[i].transparency = "yes"
            same == {i \in 1..Len(configs) :
                        (configs[i].transparency = "yes") = wanted}
        IN  /\ (accum.transparency = "yes") = wanted
            /\ \A i \in same : accum.samples <= configs[i].samples

\* C10: init_with_ext returns nothing when a creation failed or no
\* candidate was offered, and it panics then; what it returns is the window
\* and a Framebuffer with its surface, context, pixel buffer, texture,
\* vertex array and program created.
C10_InitAllOrNothing ==
    /\ failedAt # None => (initPc = "panicked" /\ returned = Nothing)
    /\ initPc = "panicked" => (failedAt # None /\ returned = Nothing)
    /\ (initPc = "pick" /\ configs = <<>>) => returned = Nothing
    /\ returned # Nothing =>
         /\ initPc = "ready"
         /\ returned.window
         /\ {"surface", "context", "pixel_buffer", "texture", "vao",
             "program"} \subseteq returned.fb
         /\ returned.fb \subseteq created

C10_Witness ==
    /\ initPc = "panicked"
    /\ failedAt = "texture"
    /\ created = AllResources \ {"texture"}
    /\ returned = Nothing

\* C11: a failed compile or link does not fail initialization: once the
\* program object exists, init panics only for a later creation; the
\* failure is printed, and the Framebuffer returned holds the program
\* whatever its status.
C11_ShaderFailureIsSoft ==
    /\ ("program" \in created /\ initPc = "panicked") =>
           failedAt \in {"vao", "pixel_buffer", "texture"}
    /\ "program" \in created =>
         /\ Len(program.log) =
                (IF program.vs THEN 0 ELSE 1) + (IF program.fs THEN 0 ELSE 1)
                    + (IF program.link THEN 0 ELSE 1)
         /\ ~program.link =>
                program.log[Len(program.log)] =
                    "ERROR::PROGRAM::LINKING_FAILED"
         /\ ~program.vs =>
                program.log[1] = "ERROR::SHADER::COMPILATION_FAILED"
    /\ initPc = "ready" => "program" \in returned.fb

C11_Witness ==
    /\ initPc = "ready"
    /\ ~program.vs
    /\ program.fs
    /\ ~program.link
    /\ "program" \in returned.fb
    /\ returned.window

\* The order in which init_with_ext creates what it creates.
CreationOrder ==
    <<"window", "surface", "context", "gl", "program", "vao", "pixel_buffer",
      "texture">>

\* The positions of init_with_ext, in program order.
InitPcOrder ==
    <<"pick", "surface", "context", "load_gl", "program", "vao",
      "pixel_buffer", "texture", "clear_color", "return", "ready", "panicked">>

InitPcRank(pc) == CHOOSE i \in 1..Len(InitPcOrder) : InitPcOrder[i] = pc

\* The state of the initialization state machine: 0 Uninitialized,
\* 1 WindowCreated, 2 ContextCurrent, 3 ResourcesBuilt, 4 Ready.
PhaseRank(cr, cur, pc) ==
    IF pc = "ready" THEN 4
    ELSE IF cr = AllResources /\ pc = "return" THEN 3
    ELSE IF cur THEN 2
    ELSE IF {"window", "surface"} \subseteq cr THEN 1
    ELSE 0

C12_StateOrder ==
    /\ \E k \in 0..Len(CreationOrder) :
           created = {CreationOrder[i] : i \in 1..k}
    /\ (created \cap {"gl", "program", "vao", "pixel_buffer", "texture"} # {})
           => current
    /\ (diag # NoLine \/ pbLength > 0 \/ boundUnpack # None) => current
    /\ initPc \in {"clear_color", "return", "ready"} =>
           (current /\ created = AllResources)
    /\ current => {"window", "surface", "context"} \subseteq created

C12_StepOrder ==
    /\ initPc # "panicked"
    /\ InitPcRank(initPc') >= InitPcRank(initPc)
    /\ (InitPcRank(initPc') = InitPcRank(initPc)) => initPc = "pick"
    /\ ("window" \notin created /\ "window" \in created') =>
           (1 <= idx /\ idx = Len(configs))
    /\ LET before == PhaseRank(created, current, initPc)
           after == PhaseRank(created', current', initPc')
       IN  after \in {before, before + 1}
    /\ initPc' = "ready" => clearColor' = clearColor

\* C12: initialization goes Uninitialized, WindowCreated, ContextCurrent,
\* ResourcesBuilt, Ready in this order, one state at a time and never back;
\* the configuration is chosen before the window exists, things are created
\* in program order, a panic is final, and no GPU object exists and no GPU
\* call has been probed before the context is current.
C12_InitOrder == [](C12_StateOrder) /\ [][C12_StepOrder]_vars

C12_Witness ==
    /\ initPc = "ready"
    /\ current
    /\ created = AllResources
    /\ ext.has_color
    /\ clearColor = ExampleColor
    /\ pbLength = 4

Count(seq, x) == Cardinality({i \in 1..Len(seq) : seq[i] = x})

Ended(f) == f.pc \in {"returned", "panicked"}

\* C13: in each draw call at most one map is issued; there are as many
\* unmaps as successful maps once the call has ended, never more before;
\* paint is invoked once if the map succeeded and never otherwise; the
\* guard is live exactly between the successful map and its unmap.
C13_MapUnmapPaired ==
    \A f \in Frames :
        LET maps == IF f.ptr = "mem" THEN 1 ELSE 0
        IN  /\ Count(f.calls, "map") <= 1
            /\ f.ptr # None => Count(f.calls, "map") = 1
            /\ Count(f.calls, "unmap") <= maps
            /\ Count(f.calls, "paint") <= maps
            /\ f.guard <=> (maps = 1 /\ Count(f.calls, "unmap") = 0)
            /\ Ended(f) =>
                 /\ Count(f.calls, "unmap") = maps
                 /\ Count(f.calls, "paint") = maps

C13_Witness ==
    /\ last.pc = "panicked"
    /\ last.cause = "painter"
    /\ last.ptr = "mem"
    /\ Count(last.calls, "unmap") = 1
    /\ Count(last.calls, "paint") = 1

\* C14: a draw call whose swap failed panics with that cause and never
\* returns; a draw call that returned ended with a successful swap.
C14_SwapFailureIsFatal ==
    \A f \in Frames :
        /\ Count(f.calls, "swap_failed") > 0 =>
             /\ f.pc \in {"unwind", "panicked"}
             /\ f.cause = "swap"
        /\ f.pc = "returned" =>
             /\ f.calls[Len(f.calls)] = "swap"
             /\ f.cause = None

C14_Witness ==
    /\ last.pc = "panicked"
    /\ last.cause = "swap"
    /\ Count(last.calls, "swap_failed") = 1
    /\ Count(last.calls, "draw_arrays") = 1

C17_AtTransfer ==
    /\ Running("sub_image") =>
         /\ ~mapped
         /\ LiveGuards = 0
         /\ boundUnpack = "pbo"
    /\ \A f \in Frames : f.cursor > 0 => f.ptr = "mem"

C17_WritesInsideGuard ==
    /\ view' # view =>
         /\ mapped
         /\ mapped'
         /\ Running("paint")
         /\ Top.guard
    /\ buf' # buf =>
         /\ mapped
         /\ ~mapped'
         /\ buf' = view

\* C17: when draw issues the transfer, no guard is live, the buffer is not
\* mapped and it is the buffer bound to PIXEL_UNPACK_BUFFER; the mapped
\* memory is written only by the Painter under a live guard, and the
\* buffer's store changes only at the unmap, to what was written.
C17_TransferAfterUnmap == [](C17_AtTransfer) /\ [][C17_WritesInsideGuard]_vars

C17_Witness ==
    /\ Running("sub_image")
    /\ Top.cursor = 4
    /\ ~mapped
    /\ buf = lastReleased.mem
    /\ buf[1] # buf[4]

C19_NoFrameAfterPanic ==
    \A f \in Frames :
        f.cause = "painter" =>
            /\ f.pc \in {"unwind", "panicked"}
            /\ \A c \in {"bind_texture", "sub_image", "use_program",
                        "bind_vao", "draw_arrays", "swap", "swap_failed"} :
                   Count(f.calls, c) = 0

C19_TextureOnlyByTransfer ==
    tex' # tex =>
        /\ Running("sub_image")
        /\ Top.cause = None
        /\ \A i \in 1..Len(stack) : stack[i].cause = None

\* C19: a draw call in which paint panicked issues no texture bind, no
\* transfer, no quad draw and no swap; the texture changes only in the
\* transfer step of a draw call that has not panicked, so it keeps what the
\* last completed draw left in it.
C19_PanicLeavesTexture ==
    [](C19_NoFrameAfterPanic) /\ [][C19_TextureOnlyByTransfer]_vars

\* The buffer holds the pixels written before the panic, the texture does not.
C19_Witness ==
    /\ last.pc = "panicked"
    /\ last.cause = "painter"
    /\ last.cursor = 1
    /\ last.sliceLen = 4
    /\ buf[1] = White
    /\ tex[<<0, 0>>] = Normalize(Black)

\* C15: once gl.clear_color has been called, the clear color is the
\* supplied one when the options carry one, and (0, 0, 0, 0) when no
\* options were given and when they were given without a clear color.
C15_ClearColorFromOptions ==
    initPc \in {"return", "ready"} =>
        /\ (ext.given /\ ext.has_color) => clearColor = ext.color
        /\ (ext.given /\ ~ext.has_color) => clearColor = <<0, 0, 0, 0>>
        /\ ~ext.given => clearColor = <<0, 0, 0, 0>>

C15_Witness ==
    /\ initPc = "ready"
    /\ ext.given
    /\ ext.has_color
    /\ clearColor = <<3, 4, 7, 10>>
    /\ clearColor # Zero

C16_Accumulated ==
    (initPc = "pick" /\ 1 <= idx) =>
        \E i \in 1..idx : accum = configs[i]

C16_Reduction ==
    /\ (initPc = "pick" /\ idx = 0 /\ idx' = 1) => accum' = configs[1]
    /\ (initPc = "pick" /\ 1 <= idx /\ idx' = idx + 1) =>
         LET cand == configs[idx + 1]
             wins == \/ /\ cand.transparency = "yes"
                        /\ accum.transparency # "yes"
                     \/ cand.samples < accum.samples
         IN  accum' = IF wins THEN cand ELSE accum
    /\ accum' # accum => (initPc = "pick" /\ idx' = idx + 1)

\* C16: the picker starts from the first candidate and goes left to right;
\* at each step the candidate replaces the accumulator exactly when it
\* supports transparency and the accumulator does not, or it has strictly
\* fewer samples; an unknown transparency counts as unsupported.
C16_PickerIsReduction == [](C16_Accumulated) /\ [][C16_Reduction]_vars

\* A candidate of unknown transparency has replaced a transparent one by
\* its smaller sample count.
C16_Witness ==
    /\ initPc = "pick"
    /\ idx = 2
    /\ configs[1] = [transparency |-> "yes", samples |-> 1]
    /\ configs[2] = [transparency |-> "unknown", samples |-> 0]
    /\ accum = configs[2]

Perms(n) ==
    {f \in [1..n -> 1..n] : \A i, j \in 1..n : f[i] = f[j] => i = j}

Permuted(cs, f) == [i \in 1..Len(cs) |-> cs[f[i]]]

\* C20: when the reduction has consumed every candidate, the picker gives
\* a configuration of the same transparency support and the same sample
\* count on every permutation of the candidates.
C20_PickerOrderIndependent ==
    (initPc = "pick" /\ 1 <= idx /\ idx = Len(configs)) =>
        \A f \in Perms(Len(configs)) :
            LET other == gl_config_picker(Permuted(configs, f))
            IN  /\ SupportsTransparency(other) = SupportsTransparency(accum)
                /\ other.samples = accum.samples

\* C18: the size given to the mapping equals the size given to the
\* allocation and equals length * 4, with length = width * height, and the
\* slice of length pixels that as_mut exposes lies within the mapped range.
C18_MappingCoversSlice ==
    /\ sizePc \in {"map", "as_mut", "exposed", "panicked"} =>
         /\ pbLength = width * height
         /\ allocReq = pbLength * PixelSize
    /\ sizePc \in {"as_mut", "exposed", "panicked"} =>
         /\ mapReq = allocReq
         /\ mapReq = pbLength * PixelSize
    /\ sizePc = "exposed" => AsMutLen * PixelSize <= mapReq

====
